---- MODULE Spec2Model ----
(***************************************************************************)
(* va-payload-lint (src/src/index.ts): a command-line run that reads a     *)
(* JSON payload, obtains a JSON Schema (schema cache file or remote        *)
(* fetch), validates the payload, warns about key casing and exits.        *)
(*                                                                         *)
(* JSON values are trees of nodes [t, s, c]: t the kind, s a sequence of   *)
(* one-character strings (a string's text, a number's digits, an object    *)
(* entry's key), c the children (an array's elements, an object's entries  *)
(* in property order, an entry's single value).  A text (a file's content, *)
(* an HTTP body, stdin) is [wf, doc]: whether it is well-formed JSON and   *)
(* the document it spells, numbers still as written.                       *)
(***************************************************************************)
EXTENDS Integers, Sequences, FiniteSets, TLC

VARIABLES
    run,          \* index of the current invocation of the CLI
    pc,           \* position of the current invocation in the program
    argv,         \* the command line of the current invocation
    opts,         \* program.opts() (index.ts:35-42)
    payloadText,  \* main: payloadText
    payload,      \* main: payload
    cacheFile,    \* content of the file at opts.schemaCache (Absent if none)
    schema,       \* main: schema
    schemaSource, \* where loadSchema got the schema: "none", "cache", "remote"
    ok,           \* main: ok
    keys,         \* detectKeyCase: keys
    detected,     \* main: detected
    warned,       \* the key-casing warning line was printed
    exitCode,     \* process exit code, -1 while running
    errMsg,       \* which failure ended the run ("" if none)
    fetches,      \* calls of fetch() in this run
    cacheReads,   \* readFileSync(opts.schemaCache) calls in this run
    cacheWrites,  \* writeFileSync(opts.schemaCache) calls in this run
    fetchedUrl,   \* the URL fetch() was called with in this run
    lastFetched   \* the schema the previous run fetched and cached (Undef if none)

vars == <<run, pc, argv, opts, payloadText, payload, cacheFile, schema,
          schemaSource, ok, keys, detected, warned, exitCode, errMsg,
          fetches, cacheReads, cacheWrites, fetchedUrl, lastFetched>>

(***************************************************************************)
(* Bounds of the model and constants of the program.                       *)
(***************************************************************************)
MaxRuns == 2      \* consecutive invocations sharing one cache path
WideSlack == 2    \* the widest payload has KeyCap + WideSlack keys
KeyCap == 200     \* index.ts:90

(***************************************************************************)
(* JSON values.                                                            *)
(***************************************************************************)
Node(t, s, c) == [t |-> t, s |-> s, c |-> c]
Undef == Node("undef", <<>>, <<>>)
Null == Node("null", <<>>, <<>>)
Bool(b) == Node("bool", IF b THEN <<"t">> ELSE <<"f">>, <<>>)
Num(s) == Node("num", s, <<>>)
Str(s) == Node("str", s, <<>>)
Arr(c) == Node("arr", <<>>, c)
Obj(c) == Node("obj", <<>>, c)
KV(k, v) == Node("kv", k, <<v>>)

\* Number literals of the documents and the numbers they denote.  A literal
\* beyond the double range (1e999) denotes Infinity.
Lit0 == <<"0">>
Lit50 == <<"5", "0">>
Lit100 == <<"1", "0", "0">>
Lit150 == <<"1", "5", "0">>
LitHuge == <<"1", "e", "9", "9", "9">>
Infinity == <<"I", "n", "f">>
Finite(s) == s # Infinity
NumVal(s) ==
    CASE s = Lit0 -> 0
      [] s = Lit50 -> 50
      [] s = Lit100 -> 100
      [] s = Lit150 -> 150
      [] OTHER -> 1000

(***************************************************************************)
(* JSON.parse and JSON.stringify.                                          *)
(***************************************************************************)
RECURSIVE EvalDoc(_)
EvalDoc(d) ==
    CASE d.t = "num" -> Num(IF d.s = LitHuge THEN Infinity ELSE d.s)
      [] d.t \in {"arr", "obj", "kv"} ->
            Node(d.t, d.s, [i \in 1..Len(d.c) |-> EvalDoc(d.c[i])])
      [] OTHER -> d

\* JSON.parse(text): throws a SyntaxError on text that is not JSON.
JSONparse(text) ==
    IF text.wf THEN [threw |-> FALSE, value |-> EvalDoc(text.doc)]
               ELSE [threw |-> TRUE, value |-> Undef]

RECURSIVE WriteDoc(_)
WriteDoc(v) ==
    CASE v.t = "num" -> IF Finite(v.s) THEN v ELSE Null
      [] v.t \in {"arr", "obj", "kv"} ->
            Node(v.t, v.s, [i \in 1..Len(v.c) |-> WriteDoc(v.c[i])])
      [] OTHER -> v

\* JSON.stringify(value, null, 2): a non-finite number is written as null.
JSONstringify(v) == [wf |-> TRUE, doc |-> WriteDoc(v)]

Text(d) == [wf |-> TRUE, doc |-> d]
NotJson == [wf |-> FALSE, doc |-> Undef]
Absent == [wf |-> FALSE, doc |-> Node("absent", <<>>, <<>>)]

(***************************************************************************)
(* detectKeyCase (index.ts:82-101).                                        *)
(***************************************************************************)
LowerCase == {"a", "b", "c", "d", "e", "f", "i", "k", "m", "n", "r", "t"}
UpperCase == {"A", "B", "D", "I", "N"}

includes(k, ch) == \E i \in 1..Len(k) : k[i] = ch

\* /[a-z][A-Z]/.test(k)
lowerUpper(k) ==
    \E i \in 1..(Len(k) - 1) : k[i] \in LowerCase /\ k[i + 1] \in UpperCase

\* walk (index.ts:85-93), the closure's keys array threaded through.
RECURSIVE walk(_, _)
RECURSIVE walkEach(_, _, _)
RECURSIVE walkKeys(_, _, _, _)
walk(v, ks) ==
    IF v.t \notin {"arr", "obj"} THEN ks
    ELSE IF v.t = "arr" THEN walkEach(v.c, 1, ks)
    ELSE walkKeys(v.c, 1, Len(v.c), [ks |-> ks, returned |-> FALSE]).ks

\* v.forEach(walk)
walkEach(es, i, ks) ==
    IF i > Len(es) THEN ks ELSE walkEach(es, i + 1, walk(es[i], ks))

\* for (const k of Object.keys(v)) {
\*   keys.push(k); if (keys.length > 200) return; walk(v[k]); }
\* over the entries lo..hi in order, from the keys collected so far and
\* whether the loop has returned.  The range is halved only to keep the
\* evaluation shallow: the entries are still visited first to last.
walkKeys(es, lo, hi, st) ==
    IF st.returned \/ lo > hi THEN st
    ELSE IF lo = hi
    THEN LET pushed == Append(st.ks, es[lo].s)
         IN  IF Len(pushed) > KeyCap
             THEN [ks |-> pushed, returned |-> TRUE]
             ELSE [ks |-> walk(es[lo].c[1], pushed), returned |-> FALSE]
    ELSE LET mid == (lo + hi) \div 2
         IN  walkKeys(es, mid + 1, hi, walkKeys(es, lo, mid, st))

collectKeys(v) == walk(v, <<>>)

\* classify with the snake test ahead of the dash test.
classify_snakeFirst(ks) ==
    IF \E i \in 1..Len(ks) : includes(ks[i], "_") THEN "snake"
    ELSE IF \E i \in 1..Len(ks) : includes(ks[i], "-") THEN "dash"
    ELSE IF \E i \in 1..Len(ks) : lowerUpper(ks[i]) THEN "camel"
    ELSE "unknown"

\* index.ts:97-100
classify(ks) ==
    IF \E i \in 1..Len(ks) : includes(ks[i], "-") THEN "dash"
    ELSE IF \E i \in 1..Len(ks) : includes(ks[i], "_") THEN "snake"
    ELSE IF \E i \in 1..Len(ks) : lowerUpper(ks[i]) THEN "camel"
    ELSE "unknown"

detectKeyCase(v) == classify(collectKeys(v))

(***************************************************************************)
(* Ajv (index.ts:127-131), for the two keywords the schemas below use.     *)
(* new Ajv({strict: false}) validates a schema against its meta-schema on  *)
(* compile and throws if it does not conform; with strict off a number     *)
(* need not be finite.                                                     *)
(***************************************************************************)
kRequired == <<"r", "e", "q", "u", "i", "r", "e", "d">>
kMaximum == <<"m", "a", "x", "i", "m", "u", "m">>

hasKey(o, k) == o.t = "obj" /\ \E i \in 1..Len(o.c) : o.c[i].s = k
get(o, k) == LET i == CHOOSE j \in 1..Len(o.c) : o.c[j].s = k IN o.c[i].c[1]

\* ajv.compile(schema) throws
compileThrows(s) ==
    \/ s.t \notin {"obj", "bool"}
    \/ /\ hasKey(s, kRequired)
       /\ LET r == get(s, kRequired)
          IN  r.t # "arr" \/ \E i \in 1..Len(r.c) : r.c[i].t # "str"
    \/ /\ hasKey(s, kMaximum)
       /\ get(s, kMaximum).t # "num"

\* validate(payload), for a schema that compiled
validate(s, p) ==
    IF s.t = "bool" THEN s.s = <<"t">>
    ELSE /\ (hasKey(s, kRequired) /\ p.t = "obj") =>
                LET r == get(s, kRequired)
                IN  \A i \in 1..Len(r.c) : hasKey(p, r.c[i].s)
         /\ (hasKey(s, kMaximum) /\ p.t = "num") =>
                NumVal(p.s) <= NumVal(get(s, kMaximum).s)

(***************************************************************************)
(* Inputs: command lines, payload texts, responses of the schema endpoint  *)
(* and initial contents of the cache file.                                 *)
(***************************************************************************)
kId == <<"i", "d">>
kCamel == <<"a", "B">>
kSnake == <<"a", "_", "b">>
kDash == <<"a", "-", "b">>

PayloadDocs ==
    { Obj(<<KV(kId, Num(Lit0))>>),
      Obj(<<KV(kDash, Num(Lit0)), KV(kCamel, Num(Lit0))>>),
      Obj(<<KV(kId, Num(Lit0)), KV(kSnake, Obj(<<KV(kCamel, Null)>>))>>),
      Arr(<<Obj(<<KV(kCamel, Num(Lit50))>>)>>),
      Obj(<<KV(kId, Str(<<"x">>)), KV(kCamel, Bool(TRUE))>>),
      Num(Lit150) }

PayloadTexts == {NotJson} \cup {Text(d) : d \in PayloadDocs}

SchemaDocs ==
    { Obj(<<KV(kRequired, Arr(<<Str(kId)>>))>>),
      Obj(<<KV(kMaximum, Num(Lit100))>>),
      Obj(<<KV(kRequired, Arr(<<Str(kId)>>)), KV(kMaximum, Num(LitHuge))>>),
      Obj(<<KV(kRequired, Num(Lit0))>>) }

\* What fetch(url) meets: a rejected request, a response whose ok is false,
\* or an ok response with a body.
Responses ==
    { [net |-> "error", okStatus |-> FALSE, body |-> NotJson],
      [net |-> "up", okStatus |-> FALSE, body |-> NotJson],
      [net |-> "up", okStatus |-> TRUE, body |-> NotJson] }
    \cup { [net |-> "up", okStatus |-> TRUE, body |-> Text(d)] : d \in SchemaDocs }

InitialCacheFiles ==
    { Absent, NotJson,
      Text(Obj(<<KV(kRequired, Arr(<<Str(kId)>>))>>)),
      Text(Null) }

DefaultBaseUrl == "https://sandbox-api.va.gov/services/claims/v1"
NoValue == "(none)"
SchemaFiles == {NoValue, "526.schema.json"}
JsonFiles == {NoValue, "payload.json", "missing.json"}
ExistingFiles == {"payload.json", "526.schema.json"}
KeyCases == {"camel", "snake", "dash", "unknown"}

\* The command lines tried: every combination of the flags.
Argvs ==
    [ schemaUrl : {NoValue, "https://example.test/526.json"},
      baseUrl : {DefaultBaseUrl},
      schemaCache : {".cache/526.schema.json"},
      cache : BOOLEAN,
      json : JsonFiles,
      expectCase : KeyCases,
      schemaFile : SchemaFiles ]

NoOpts ==
    [ schemaUrl |-> NoValue, baseUrl |-> DefaultBaseUrl,
      schemaCache |-> ".cache/526.schema.json", cache |-> TRUE,
      json |-> NoValue, expectCase |-> "unknown" ]

NoArgv ==
    [ schemaUrl |-> NoValue, baseUrl |-> DefaultBaseUrl,
      schemaCache |-> ".cache/526.schema.json", cache |-> TRUE,
      json |-> NoValue, expectCase |-> "unknown", schemaFile |-> NoValue ]

(***************************************************************************)
(* One invocation.                                                         *)
(***************************************************************************)
Idle ==
    /\ argv = NoArgv
    /\ opts = NoOpts
    /\ payloadText = NotJson
    /\ payload = Undef
    /\ schema = Undef
    /\ schemaSource = "none"
    /\ ok = FALSE
    /\ keys = <<>>
    /\ detected = "unknown"
    /\ warned = FALSE
    /\ exitCode = -1
    /\ errMsg = ""
    /\ fetches = 0
    /\ cacheReads = 0
    /\ cacheWrites = 0
    /\ fetchedUrl = NoValue

Init ==
    /\ run = 1
    /\ pc = "start"
    /\ cacheFile \in InitialCacheFiles
    /\ lastFetched = Undef
    /\ Idle

\* process.exit(code)
Exit(code, msg) ==
    /\ exitCode' = code
    /\ errMsg' = msg
    /\ pc' = "done"

\* main().catch exiting with the validation-failure code.
Fatal_exit1(msg) == Exit(1, msg)

\* main().catch (index.ts:154-157)
Fatal(msg) == Exit(3, msg)

\* program.option(...).parse(process.argv); program.opts() (index.ts:12-42).
\* No --schema-file option is declared: commander rejects a flag it does not
\* know with "error: unknown option" and exit code 1.
ParseArgs ==
    /\ pc = "start"
    /\ \E a \in Argvs :
          /\ argv' = a
          /\ IF a.schemaFile # NoValue
             THEN /\ Exit(1, "unknown option")
                  /\ UNCHANGED opts
             ELSE /\ opts' = [ schemaUrl |-> a.schemaUrl, baseUrl |-> a.baseUrl,
                               schemaCache |-> a.schemaCache, cache |-> a.cache,
                               json |-> a.json, expectCase |-> a.expectCase ]
                  /\ pc' = "read"
                  /\ UNCHANGED <<exitCode, errMsg>>
    /\ UNCHANGED <<run, payloadText, payload, cacheFile, schema, schemaSource,
                   ok, keys, detected, warned, fetches, cacheReads,
                   cacheWrites, fetchedUrl, lastFetched>>

\* const payloadText = opts.json ? fs.readFileSync(opts.json) : await readStdin()
\* (index.ts:113-115); readFileSync throws on a file that does not exist.
ReadPayload ==
    /\ pc = "read"
    /\ IF opts.json # NoValue /\ opts.json \notin ExistingFiles
       THEN /\ Fatal("ENOENT")
            /\ UNCHANGED payloadText
       ELSE /\ \E t \in PayloadTexts : payloadText' = t
            /\ pc' = "parse"
            /\ UNCHANGED <<exitCode, errMsg>>
    /\ UNCHANGED <<run, argv, opts, payload, cacheFile, schema, schemaSource,
                   ok, keys, detected, warned, fetches, cacheReads,
                   cacheWrites, fetchedUrl, lastFetched>>

\* try { payload = JSON.parse(payloadText) } catch { process.exit(2) }
\* (index.ts:117-123)
ParsePayload ==
    /\ pc = "parse"
    /\ LET r == JSONparse(payloadText)
       IN  IF r.threw
           THEN /\ Exit(2, "Invalid JSON")
                /\ UNCHANGED payload
           ELSE /\ payload' = r.value
                /\ pc' = "load"
                /\ UNCHANGED <<exitCode, errMsg>>
    /\ UNCHANGED <<run, argv, opts, payloadText, cacheFile, schema,
                   schemaSource, ok, keys, detected, warned, fetches,
                   cacheReads, cacheWrites, fetchedUrl, lastFetched>>

\* const schemaUrl = opts.schemaUrl ?? `${opts.baseUrl}/forms/526` (index.ts:66)
schemaUrlOf(o) ==
    IF o.schemaUrl # NoValue THEN o.schemaUrl ELSE "baseUrl/forms/526"

\* fs.existsSync(opts.schemaCache)
cacheExists == cacheFile # Absent

\* if (opts.cache && fs.existsSync(opts.schemaCache)) (index.ts:68)
readsCache(o) == o.cache /\ cacheExists

\* The cache written whether or not caching is enabled.
writesCache_always(o) == TRUE

\* if (opts.cache) (index.ts:74)
writesCache(o) == o.cache

\* const schema = await loadSchema() (index.ts:125, 65-80), fetchJson
\* (index.ts:59-63) included; resp is what the endpoint answers.
loadSchema(resp) ==
    IF readsCache(opts)
    THEN /\ cacheReads' = cacheReads + 1
         /\ LET r == JSONparse(cacheFile)
            IN  IF r.threw
                THEN /\ Fatal("cache is not JSON")
                     /\ UNCHANGED <<schema, schemaSource>>
                ELSE /\ schema' = r.value
                     /\ schemaSource' = "cache"
                     /\ pc' = "compile"
                     /\ UNCHANGED <<exitCode, errMsg>>
         /\ UNCHANGED <<cacheFile, fetches, cacheWrites, fetchedUrl>>
    ELSE /\ fetches' = fetches + 1
         /\ fetchedUrl' = schemaUrlOf(opts)
         /\ UNCHANGED cacheReads
         /\ IF resp.net = "error"
            THEN /\ Fatal("fetch failed")
                 /\ UNCHANGED <<schema, schemaSource, cacheFile, cacheWrites>>
            ELSE IF ~resp.okStatus
            THEN /\ Fatal("Failed to fetch")
                 /\ UNCHANGED <<schema, schemaSource, cacheFile, cacheWrites>>
            ELSE LET r == JSONparse(resp.body)
                 IN  IF r.threw
                     THEN /\ Fatal("body is not JSON")
                          /\ UNCHANGED <<schema, schemaSource, cacheFile,
                                         cacheWrites>>
                     ELSE /\ schema' = r.value
                          /\ schemaSource' = "remote"
                          /\ IF writesCache(opts)
                             THEN /\ cacheFile' = JSONstringify(r.value)
                                  /\ cacheWrites' = cacheWrites + 1
                             ELSE UNCHANGED <<cacheFile, cacheWrites>>
                          /\ pc' = "compile"
                          /\ UNCHANGED <<exitCode, errMsg>>

LoadSchema ==
    /\ pc = "load"
    /\ \E resp \in Responses : loadSchema(resp)
    /\ UNCHANGED <<run, argv, opts, payloadText, payload, ok, keys, detected,
                   warned, lastFetched>>

\* const validate = ajv.compile(schema); const ok = validate(payload)
\* (index.ts:127-131)
Validate ==
    /\ pc = "compile"
    /\ IF compileThrows(schema)
       THEN /\ Fatal("schema is invalid")
            /\ UNCHANGED ok
       ELSE /\ ok' = validate(schema, payload)
            /\ pc' = "report"
            /\ UNCHANGED <<exitCode, errMsg>>
    /\ UNCHANGED <<run, argv, opts, payloadText, payload, cacheFile, schema,
                   schemaSource, keys, detected, warned, fetches, cacheReads,
                   cacheWrites, fetchedUrl, lastFetched>>

\* if (opts.expectCase !== "unknown" && detected !== opts.expectCase) (index.ts:136)
warns(expectCase, det) == expectCase # "unknown" /\ det # expectCase

\* if (ok) process.exit(0) else process.exit(1) (index.ts:144-151)
verdictCode(isOk) == IF isOk THEN 0 ELSE 1

\* Report with a key-casing warning turning a pass into a failure.
Report_warningFails ==
    /\ pc = "report"
    /\ keys' = collectKeys(payload)
    /\ detected' = classify(keys')
    /\ warned' = warns(opts.expectCase, detected')
    /\ Exit(verdictCode(ok /\ ~warned'), "")
    /\ UNCHANGED <<run, argv, opts, payloadText, payload, cacheFile, schema,
                   schemaSource, ok, fetches, cacheReads, cacheWrites,
                   fetchedUrl, lastFetched>>

\* index.ts:133-151
Report ==
    /\ pc = "report"
    /\ keys' = collectKeys(payload)
    /\ detected' = classify(keys')
    /\ warned' = warns(opts.expectCase, detected')
    /\ Exit(verdictCode(ok), "")
    /\ UNCHANGED <<run, argv, opts, payloadText, payload, cacheFile, schema,
                   schemaSource, ok, fetches, cacheReads, cacheWrites,
                   fetchedUrl, lastFetched>>

\* The next invocation of the CLI, on the file system the last one left.
NextRun ==
    /\ pc = "done"
    /\ run < MaxRuns
    /\ run' = run + 1
    /\ pc' = "start"
    /\ lastFetched' = IF cacheWrites > 0 THEN schema ELSE Undef
    /\ argv' = NoArgv
    /\ opts' = NoOpts
    /\ payloadText' = NotJson
    /\ payload' = Undef
    /\ schema' = Undef
    /\ schemaSource' = "none"
    /\ ok' = FALSE
    /\ keys' = <<>>
    /\ detected' = "unknown"
    /\ warned' = FALSE
    /\ exitCode' = -1
    /\ errMsg' = ""
    /\ fetches' = 0
    /\ cacheReads' = 0
    /\ cacheWrites' = 0
    /\ fetchedUrl' = NoValue
    /\ UNCHANGED cacheFile

Next ==
    \/ ParseArgs
    \/ ReadPayload
    \/ ParsePayload
    \/ LoadSchema
    \/ Validate
    \/ Report
    \/ NextRun

Spec == Init /\ [][Next]_vars

(***************************************************************************)
(* detectKeyCase on its own: payloads around the key cap.                  *)
(***************************************************************************)
Digit == <<"0", "1", "2", "3", "4", "5", "6", "7", "8", "9">>

\* The i-th filler key, "k000", "k001", ...: neither dash, snake nor camel.
fillerKey(i) ==
    <<"k", Digit[(i \div 100) + 1], Digit[((i \div 10) % 10) + 1], Digit[(i % 10) + 1]>>

\* An object of n keys, all fillers but kDash at position d and kSnake at
\* position s (0: nowhere).
WideObj(n, d, s) ==
    Obj([i \in 1..n |->
            KV(IF i = d THEN kDash ELSE IF i = s THEN kSnake ELSE fillerKey(i),
               Num(Lit0))])

WideSizes == (KeyCap - 1)..(KeyCap + WideSlack)
WidePositions == {0, 1, KeyCap - 1, KeyCap, KeyCap + 1, KeyCap + WideSlack}

WideObjs ==
    { WideObj(n, d, s) : n \in WideSizes, d \in WidePositions, s \in WidePositions }

\* A wide object below the first key of an object, or first in an array, the
\* dash and snake keys after it.
NestedWide ==
    { Obj(<<KV(kId, WideObj(n, 0, 0)), KV(a, Null), KV(b, Null)>>) :
        n \in WideSizes, a \in {kDash, kSnake}, b \in {kDash, kSnake, kCamel} }
    \cup
    { Arr(<<WideObj(n, 0, 0), Obj(<<KV(a, Null)>>), Obj(<<KV(b, Null)>>)>>) :
        n \in WideSizes, a \in {kDash, kSnake}, b \in {kDash, kSnake, kCamel} }

SmallKeys == {kId, kCamel, kSnake, kDash}
SmallObjs ==
    { Obj(<<KV(a, Null)>>) : a \in SmallKeys }
    \cup { Obj(<<KV(a, Null), KV(b, Num(Lit0))>>) : a \in SmallKeys, b \in SmallKeys }
    \cup { Obj(<<KV(a, Arr(<<Obj(<<KV(b, Null)>>)>>))>>) : a \in SmallKeys, b \in SmallKeys }

DetectInputs ==
    { v \in WideObjs \cup NestedWide \cup SmallObjs :
        v.t = "obj" => \A i, j \in 1..Len(v.c) : v.c[i].s = v.c[j].s => i = j }
    \cup {Null, Num(Lit0), Arr(<<>>)}

InitDetect ==
    /\ run = 1
    /\ pc = "detect"
    /\ cacheFile = Absent
    /\ lastFetched = Undef
    /\ argv = NoArgv
    /\ opts = NoOpts
    /\ payloadText = NotJson
    /\ payload \in DetectInputs
    /\ schema = Undef
    /\ schemaSource = "none"
    /\ ok = FALSE
    /\ keys = <<>>
    /\ detected = "unknown"
    /\ warned = FALSE
    /\ exitCode = -1
    /\ errMsg = ""
    /\ fetches = 0
    /\ cacheReads = 0
    /\ cacheWrites = 0
    /\ fetchedUrl = NoValue

\* const detected = detectKeyCase(payload) (index.ts:135)
Detect ==
    /\ pc = "detect"
    /\ keys' = collectKeys(payload)
    /\ detected' = classify(keys')
    /\ pc' = "detected"
    /\ UNCHANGED <<run, argv, opts, payloadText, payload, cacheFile, schema,
                   schemaSource, ok, warned, exitCode, errMsg, fetches,
                   cacheReads, cacheWrites, fetchedUrl, lastFetched>>

NextDetect == Detect

SpecDetect == InitDetect /\ [][NextDetect]_vars

(***************************************************************************)
(* Properties.                                                             *)
(***************************************************************************)
\* Every key of a value, capped or not: the places of its entries and
\* their keys.
RECURSIVE keyPaths(_)
keyPaths(v) ==
    (IF v.t = "kv" THEN {<<>>} ELSE {})
    \cup UNION { { <<i>> \o q : q \in keyPaths(v.c[i]) } : i \in 1..Len(v.c) }

RECURSIVE everyKey(_)
everyKey(v) ==
    (IF v.t = "kv" THEN {v.s} ELSE {})
    \cup UNION { everyKey(v.c[i]) : i \in 1..Len(v.c) }

keyCount(v) == Cardinality(keyPaths(v))
hasDashKey(v) == \E k \in everyKey(v) : includes(k, "-")
hasSnakeKey(v) == \E k \in everyKey(v) : includes(k, "_")

\* The run got as far as asking for the schema.
PastLoad == payload # Undef /\ pc \in {"compile", "report", "done"}
\* The run printed a verdict.
Reported == pc = "done" /\ errMsg = "" /\ exitCode \in {0, 1}

\* C1: a run given --schema-file with an existing file ends having loaded
\* the schema from that file, with no cache read, no cache write and no
\* fetch.
C1_SchemaFileIsLoadedOffline ==
    (pc = "done" /\ argv.schemaFile \in ExistingFiles) =>
        /\ schemaSource = "file"
        /\ cacheReads = 0
        /\ cacheWrites = 0
        /\ fetches = 0

\* C2: with caching enabled, a cache file that exists and is not valid
\* JSON is a cache miss: loading the schema then fetches, and does not end
\* the run with the parse failure.
C2_CorruptCacheIsMiss ==
    [][ (pc = "load" /\ opts.cache /\ cacheExists /\ ~cacheFile.wf) =>
            (fetches' = fetches + 1 /\ errMsg' # "cache is not JSON") ]_vars

\* C3: a run (with flags the program knows) that ends without a parsed
\* payload, the --json file missing or the text not JSON, exits with 2.
C3_PayloadFailureExits2 ==
    (pc = "done" /\ argv.schemaFile = NoValue /\ payload = Undef) =>
        exitCode = 2

\* C4: the warning is printed exactly when the expected case is configured,
\* the detected case is not unknown, and the two differ.
C4_WarningExactly ==
    Reported =>
        (warned <=> /\ opts.expectCase # "unknown"
                    /\ detected # "unknown"
                    /\ detected # opts.expectCase)

\* C5: a run that parsed its payload and obtained and compiled its schema
\* exits 0 exactly when the payload conforms and 1 exactly when it does not,
\* whatever --expect-case and the detected case are.
C5_ExitCodeIsVerdict ==
    (pc = "done" /\ payload # Undef /\ schema # Undef /\ ~compileThrows(schema)) =>
        /\ exitCode = 0 <=> validate(schema, payload)
        /\ exitCode = 1 <=> ~validate(schema, payload)

\* C5 witness: a conforming payload whose keys drew the warning, exit 0.
C5_Witness ==
    /\ pc = "done"
    /\ warned
    /\ opts.expectCase = "snake"
    /\ detected = "dash"
    /\ exitCode = 0
    /\ validate(schema, payload)

\* The verdict of detectKeyCase goes by dash, then snake, then camel, over
\* the collected keys.
PrecedenceOverCollected ==
    LET D == \E i \in 1..Len(keys) : includes(keys[i], "-")
        S == \E i \in 1..Len(keys) : includes(keys[i], "_")
        C == \E i \in 1..Len(keys) : lowerUpper(keys[i])
    IN  /\ D => detected = "dash"
        /\ (~D /\ S) => detected = "snake"
        /\ (~D /\ ~S /\ C) => detected = "camel"
        /\ (~D /\ ~S /\ ~C) => detected = "unknown"

\* C6 as stated: precedence over the collected keys, and any payload with a
\* dash-named and a snake-named key yields dash.
C6_DashBeatsSnakeAlways ==
    pc = "detected" =>
        /\ PrecedenceOverCollected
        /\ (hasDashKey(payload) /\ hasSnakeKey(payload)) => detected = "dash"

\* C6 amended: precedence over the collected keys, and a payload of at most
\* 200 keys in all with a dash-named and a snake-named key yields dash,
\* wherever the two keys stand.
C6_DashBeatsSnakeWithinCap ==
    pc = "detected" =>
        /\ PrecedenceOverCollected
        /\ (keyCount(payload) <= KeyCap /\ hasDashKey(payload) /\ hasSnakeKey(payload))
              => detected = "dash"

\* C6 witness: 200 keys, the snake key first and the dash key 199 keys
\* later, classified dash.
C6_Witness ==
    /\ pc = "detected"
    /\ payload = WideObj(KeyCap, KeyCap, 1)
    /\ Len(keys) = KeyCap
    /\ detected = "dash"

\* C7: in a run with caching enabled that follows a run which fetched the
\* schema and wrote the cache, the schema obtained equals the fetched one
\* and nothing is fetched.
C7_CacheRoundTrip ==
    (run > 1 /\ lastFetched # Undef /\ opts.cache /\ PastLoad) =>
        /\ schema = lastFetched
        /\ fetches = 0

\* C8: the cache file is written only in the step in which a fetch
\* succeeds with caching enabled; with --no-cache it is neither read nor
\* written; a failed fetch, a cache hit and a rejected payload leave it.
C8_CacheWrittenOnlyAfterFetch ==
    [][ /\ (cacheFile' # cacheFile \/ cacheWrites' > cacheWrites) =>
              /\ pc = "load"
              /\ opts.cache
              /\ fetches' = fetches + 1
              /\ schemaSource' = "remote"
              /\ cacheWrites' = cacheWrites + 1
        /\ (pc = "load" /\ ~opts.cache) =>
              (cacheReads' = cacheReads /\ cacheFile' = cacheFile)
        /\ (pc' = "done" /\ (payload' = Undef \/ schemaSource' # "remote")) =>
              cacheFile' = cacheFile ]_vars

\* C8 witness: the cache file written after a successful fetch.
C8_Witness ==
    /\ pc = "compile"
    /\ opts.cache
    /\ cacheWrites = 1
    /\ fetches = 1
    /\ cacheFile = JSONstringify(schema)

\* C9: at most one fetch per run; a run whose fetch brought no schema, or
\* whose schema does not compile, ends with exit code 3 and no verdict.
C9_SchemaFailureIsFatal ==
    /\ fetches <= 1
    /\ (pc = "done" /\ fetches = 1 /\ schemaSource = "none") =>
          (exitCode = 3 /\ cacheWrites = 0 /\ ~warned)
    /\ (pc = "done" /\ schema # Undef /\ compileThrows(schema)) =>
          (exitCode = 3 /\ ~warned)

\* C9 witness: a failed fetch ended the run with 3.
C9_Witness ==
    /\ pc = "done"
    /\ fetches = 1
    /\ schemaSource = "none"
    /\ exitCode = 3

\* C10: the collected keys never number more than 200.
C10_KeysWithinCap == Len(keys) <= KeyCap

====
